---- MODULE Spec2Model ----
(***************************************************************************)
(* State-machine model of the TBM dashboard front end, class               *)
(* TBMDataMonitor (src/System/LOGGING_CONFIG.md, lines 107-797): the       *)
(* polling scheduler (startMonitoring / stopMonitoring / togglePause /     *)
(* refreshData), the asynchronous fetchData with its fallback to           *)
(* generateMockData, and the reconciliation done by updateData.            *)
(*                                                                         *)
(* Numbers are fixed-point integers counted in units of 10^-5, so that the *)
(* 0.0001 no-change threshold and the roundings of toFixed are visible.    *)
(* JavaScript values are records [t, n, s, predicted, hasValue].           *)
(***************************************************************************)
EXTENDS Integers, Sequences, FiniteSets, TLC

(***************************************************************************)
(* Bounds of the model.                                                    *)
(***************************************************************************)
\* number of fetches the page issues in one run of Spec
MaxFetches == 2
\* number of fetches the page issues in one run of SpecReconcile
MaxCycles == 3

(***************************************************************************)
(* JavaScript values.                                                      *)
(***************************************************************************)
\* 1.0 in fixed-point units
One == 10^5

Null == [t |-> "null", n |-> 0, s |-> "", predicted |-> "absent", hasValue |-> FALSE]
Undefined == [t |-> "undefined", n |-> 0, s |-> "", predicted |-> "absent", hasValue |-> FALSE]
NaN == [t |-> "nan", n |-> 0, s |-> "", predicted |-> "absent", hasValue |-> FALSE]
\* +Infinity (n = 1) and -Infinity (n = -1)
Infinity(sign) == [t |-> "infinity", n |-> sign, s |-> "", predicted |-> "absent", hasValue |-> FALSE]
Num(n) == [t |-> "number", n |-> n, s |-> "", predicted |-> "absent", hasValue |-> FALSE]
Str(s) == [t |-> "string", n |-> 0, s |-> s, predicted |-> "absent", hasValue |-> FALSE]
Bool(b) == [t |-> "boolean", n |-> IF b THEN 1 ELSE 0, s |-> "", predicted |-> "absent", hasValue |-> FALSE]
\* an object { value: n, predicted: p }; p is "true", "false", "truthy" or "absent"
Tagged(n, p) == [t |-> "object", n |-> n, s |-> "", predicted |-> p, hasValue |-> TRUE]
\* an object without a value property, such as { } or { predicted: p }
Malformed(p) == [t |-> "object", n |-> 0, s |-> "", predicted |-> p, hasValue |-> FALSE]

\* value === null || value === undefined
IsNullish(v) == v.t \in {"null", "undefined"}
\* typeof value === 'number'
IsTypeofNumber(v) == v.t \in {"number", "nan", "infinity"}
\* typeof value === 'number' && !isNaN(value) && isFinite(value)
IsFiniteNumber(v) == v.t = "number"

\* ToBoolean(v): what if (v), !v and v || w test
Truthy(v) ==
    CASE v.t = "boolean" -> v.n = 1
      [] v.t = "number" -> v.n # 0
      [] v.t = "string" -> v.s # ""
      [] v.t \in {"object", "infinity"} -> TRUE
      [] OTHER -> FALSE

Abs(n) == IF n < 0 THEN -n ELSE n

\* a / b rounded to the nearest integer, halves away from zero (a >= 0, b > 0)
RoundDiv(a, b) == (2 * a + b) \div (2 * b)

\* the operands of the subtraction exchanged
JsMinusReversed(a, b) ==
    IF a.t = "number" /\ b.t = "number" THEN Num(b.n - a.n) ELSE NaN

\* a - b of JavaScript: numeric on two numbers, NaN on anything else the
\* model carries (objects, undefined, non-numeric strings)
JsMinus(a, b) ==
    IF a.t = "number" /\ b.t = "number" THEN Num(a.n - b.n)
    ELSE IF a.t = "infinity" /\ b.t = "number" THEN a
    ELSE IF a.t = "number" /\ b.t = "infinity" THEN Infinity(-b.n)
    ELSE NaN

(***************************************************************************)
(* Feature catalogue: the first entries of FEATURE_CONFIG (id and unit).   *)
(***************************************************************************)
FEATURE_CONFIG ==
    << [id |-> 1, unit |-> "mm/rpm"],
       [id |-> 2, unit |-> "MPa"] >>

FeatureIds == {FEATURE_CONFIG[i].id : i \in 1..Len(FEATURE_CONFIG)}

(***************************************************************************)
(* Text of a cell.  A formatted number is [k |-> "fixed", d, neg, m]: the  *)
(* decimal with d digits after the point whose digits are m.               *)
(***************************************************************************)
Dash == [k |-> "--", d |-> 0, neg |-> FALSE, m |-> 0]
CollectingText == [k |-> "collecting", d |-> 0, neg |-> FALSE, m |-> 0]
ZeroText == [k |-> "0", d |-> 0, neg |-> FALSE, m |-> 0]

\* number.toFixed(d) for d <= 5
ToFixed(n, d) == [k |-> "fixed", d |-> d, neg |-> n < 0, m |-> RoundDiv(Abs(n), 10^(5 - d))]

\* number.toExponential(2): three significant digits m and the exponent d
RECURSIVE Exponent10(_)
Exponent10(a) == IF a < 10 THEN 0 ELSE 1 + Exponent10(a \div 10)
ToExponential(n) ==
    LET e == Exponent10(Abs(n))
    IN  [k |-> "exp", d |-> e - 5, neg |-> n < 0,
         m |-> IF e >= 2 THEN RoundDiv(Abs(n), 10^(e - 2)) ELSE Abs(n) * 10^(2 - e)]

\* Math.abs(value) > 1e10
ExceedsTenBillion(n) ==
    LET whole == Abs(n) \div One
        frac == Abs(n) % One
    IN  \/ whole \div One > One
        \/ whole \div One = One /\ (whole % One > 0 \/ frac > 0)

formatValue(value) ==
    IF ~IsFiniteNumber(value) THEN Dash
    ELSE IF ExceedsTenBillion(value.n) THEN ToExponential(value.n)
    ELSE IF value.n >= 1000 * One THEN ToFixed(value.n, 0)
    ELSE IF value.n >= One THEN ToFixed(value.n, 2)
    ELSE ToFixed(value.n, 4)

\* the function without its first test: typeof null is 'object', so the
\* read of null.predicted throws a TypeError
determineDataStatusUnguarded(value) ==
    IF value.t = "null" THEN "TypeError"
    ELSE IF value.t = "object" /\ value.predicted = "true" THEN "predicted"
    ELSE IF IsTypeofNumber(value) /\ value.t # "nan" THEN "valid"
    ELSE IF value.t = "object" /\ value.hasValue THEN "valid"
    ELSE "error"

determineDataStatus(value) ==
    IF IsNullish(value) THEN "missing"
    ELSE IF value.t = "object" /\ value.predicted = "true" THEN "predicted"
    ELSE IF IsTypeofNumber(value) /\ value.t # "nan" THEN "valid"
    ELSE IF value.t = "object" /\ value.hasValue THEN "valid"
    ELSE "error"

(***************************************************************************)
(* Elements of data.features.  The endpoint sends one object               *)
(* { current_value, current_source, prediction_value } per feature;        *)
(* generateMockData pushes bare values (a number, { value, predicted },    *)
(* or null).  The three properties of a bare value read as undefined, and  *)
(* reading a property of null or undefined throws a TypeError.             *)
(***************************************************************************)
FeatureObject(cv, cs, pv) ==
    [k |-> "object", current_value |-> cv, current_source |-> cs,
     prediction_value |-> pv, raw |-> Undefined]
RawElement(v) ==
    [k |-> IF IsNullish(v) THEN "nullish" ELSE "bare", current_value |-> Undefined,
     current_source |-> Undefined, prediction_value |-> Undefined, raw |-> v]

\* features[i - 1] of JavaScript for the 1-based i: undefined past the end
ElementAt(features, i) ==
    IF i \in 1..Len(features) THEN features[i] ELSE RawElement(Undefined)

\* featureData.current_value throws
PropertyReadThrows(featureData) == featureData.k = "nullish"

(***************************************************************************)
(* Cells of the table.                                                     *)
(***************************************************************************)
NoPercent == [k |-> "none", neg |-> FALSE, m |-> 0]
\* changePercent.toFixed(1) where changePercent = change / |lastValue| * 100
PercentText(change, lastValue) ==
    IF change.t # "number" \/ lastValue.t # "number"
    THEN [k |-> "NaN", neg |-> FALSE, m |-> 0]
    ELSE IF lastValue.n = 0
    THEN IF change.n = 0 THEN [k |-> "NaN", neg |-> FALSE, m |-> 0]
         ELSE [k |-> "Infinity", neg |-> change.n < 0, m |-> 0]
    ELSE [k |-> "fixed", neg |-> change.n < 0,
          m |-> RoundDiv(Abs(change.n) * 1000, Abs(lastValue.n))]

\* the change cell: its textContent (kind, leading "+", formatted change,
\* percentage), its className and the local constant change it was built from
ChangeCell(kind, plus, value, pct, className, change) ==
    [k |-> kind, plus |-> plus, value |-> value, pct |-> pct,
     className |-> className, change |-> change]
ChangeDash == ChangeCell("--", FALSE, Dash, NoPercent, "no-change", Undefined)

\* Math.abs(change) < 0.0001
NoChangeThreshold == 10

\* the function with the threshold included in the no-change band
updateChangeValueInclusive(lastValues, featureId, currentValue) ==
    IF ~IsNullish(currentValue)
    THEN LET lastValue == lastValues[featureId]
         IN  IF ~IsNullish(lastValue)
             THEN LET change == JsMinus(currentValue, lastValue)
                      pct == PercentText(change, lastValue)
                  IN  IF change.t = "number" /\ Abs(change.n) <= NoChangeThreshold
                      THEN ChangeCell("0", FALSE, ZeroText, NoPercent, "no-change", change)
                      ELSE IF \/ change.t = "number" /\ change.n > 0
                              \/ change.t = "infinity" /\ change.n > 0
                      THEN ChangeCell("change", TRUE, formatValue(change), pct, "increase", change)
                      ELSE ChangeCell("change", FALSE, formatValue(change), pct, "decrease", change)
             ELSE ChangeDash
    ELSE ChangeDash

updateChangeValueWithoutSaving(lastValues, featureId, currentValue) ==
    IF ~IsNullish(currentValue)
    THEN LET lastValue == lastValues[featureId]
         IN  IF ~IsNullish(lastValue)
             THEN LET change == JsMinus(currentValue, lastValue)
                      pct == PercentText(change, lastValue)
                  IN  IF change.t = "number" /\ Abs(change.n) < NoChangeThreshold
                      THEN ChangeCell("0", FALSE, ZeroText, NoPercent, "no-change", change)
                      ELSE IF \/ change.t = "number" /\ change.n > 0
                              \/ change.t = "infinity" /\ change.n > 0
                      THEN ChangeCell("change", TRUE, formatValue(change), pct, "increase", change)
                      ELSE ChangeCell("change", FALSE, formatValue(change), pct, "decrease", change)
             ELSE ChangeDash
    ELSE ChangeDash

Cell(text, className) == [text |-> text, className |-> className]

\* className of the current-value cell
ValueClass(currentSource, currentStatus) ==
    IF currentSource = Str("api") THEN "api-data"
    ELSE IF currentSource = Str("predicted") \/ currentSource = Str("simulated") THEN "filled-data"
    ELSE IF currentSource = Str("cached") THEN "cached-data"
    ELSE currentStatus

\* the function forgetting the stored prediction when it shows none
updateFeatureDisplayForgettingPrediction(s, featureId, currentValue, currentStatus, currentSource, predictionValue, bufferReady) ==
    LET tPrediction ==
            IF s.lastPredictionValues[featureId].t # "undefined"
            THEN Cell(formatValue(s.lastPredictionValues[featureId]), "predicted")
            ELSE Cell(Dash, "missing")
        value ==
            IF ~IsNullish(currentValue)
            THEN Cell(formatValue(currentValue), ValueClass(currentSource, currentStatus))
            ELSE Cell(Dash, "missing")
        change == updateChangeValueWithoutSaving(s.lastValues, featureId, currentValue)
        ready == ~IsNullish(predictionValue) /\ Truthy(bufferReady)
        prediction ==
            IF ready THEN Cell(formatValue(predictionValue), "predicted")
            ELSE IF ~Truthy(bufferReady) THEN Cell(CollectingText, "collecting")
            ELSE Cell(Dash, "missing")
    IN  [s EXCEPT !.tPredictionCell[featureId] = tPrediction,
                  !.valueCell[featureId] = value,
                  !.changeCell[featureId] = change,
                  !.predictionCell[featureId] = prediction,
                  !.lastPredictionValues[featureId] =
                      IF ready THEN predictionValue ELSE Undefined]

\* s is the monitor with its page: the fields of `this` and the DOM elements
updateFeatureDisplayWithoutSaving(s, featureId, currentValue, currentStatus, currentSource, predictionValue, bufferReady) ==
    LET tPrediction ==
            IF s.lastPredictionValues[featureId].t # "undefined"
            THEN Cell(formatValue(s.lastPredictionValues[featureId]), "predicted")
            ELSE Cell(Dash, "missing")
        value ==
            IF ~IsNullish(currentValue)
            THEN Cell(formatValue(currentValue), ValueClass(currentSource, currentStatus))
            ELSE Cell(Dash, "missing")
        change == updateChangeValueWithoutSaving(s.lastValues, featureId, currentValue)
        ready == ~IsNullish(predictionValue) /\ Truthy(bufferReady)
        prediction ==
            IF ready THEN Cell(formatValue(predictionValue), "predicted")
            ELSE IF ~Truthy(bufferReady) THEN Cell(CollectingText, "collecting")
            ELSE Cell(Dash, "missing")
    IN  [s EXCEPT !.tPredictionCell[featureId] = tPrediction,
                  !.valueCell[featureId] = value,
                  !.changeCell[featureId] = change,
                  !.predictionCell[featureId] = prediction,
                  !.lastPredictionValues[featureId] =
                      IF ready THEN predictionValue ELSE @]

(***************************************************************************)
(* The body of a response, and updateData.                                 *)
(***************************************************************************)
\* the object a response.json() resolved to
Body(features, step_count, buffer_ready, tbm_status) ==
    [k |-> "object", hasFeatures |-> TRUE, features |-> features,
     step_count |-> step_count, buffer_ready |-> buffer_ready, tbm_status |-> tbm_status]
\* the JSON value null
NullBody ==
    [k |-> "null", hasFeatures |-> FALSE, features |-> << >>,
     step_count |-> Undefined, buffer_ready |-> Undefined, tbm_status |-> Undefined]
\* an object with no features property, such as { "error": ... }
NoFeaturesBody ==
    [k |-> "object", hasFeatures |-> FALSE, features |-> << >>,
     step_count |-> Undefined, buffer_ready |-> Undefined, tbm_status |-> Undefined]

\* a || b
JsOr(a, b) == IF Truthy(a) THEN a ELSE b

\* the function counting a predicted value as a valid one
updateStatsCountingPredicted(s, validCount, missingCount, predictedCount) ==
    [s EXCEPT !.validCount = Num(validCount + predictedCount), !.missingCount = Num(missingCount)]

updateStats(s, validCount, missingCount, predictedCount) ==
    [s EXCEPT !.validCount = Num(validCount), !.missingCount = Num(missingCount)]

updateTBMStatusFromBackend(s, tbmStatus) ==
    [s EXCEPT !.machineStatus =
        IF tbmStatus = Str("active") THEN "status-active" ELSE "status-rest"]

StatusText(kind, stepCount) == [k |-> kind, stepCount |-> stepCount]

updateStepInfo(s, stepCount, bufferReady) ==
    IF Truthy(bufferReady)
    THEN [s EXCEPT !.statusDot = "connected", !.statusText = StatusText("ready", Undefined)]
    ELSE [s EXCEPT !.statusDot = "connecting",
                   !.statusText = StatusText("collecting", stepCount)]

updateStatus(s, status) ==
    [s EXCEPT !.statusDot = status, !.statusText = StatusText(status, Undefined)]

showLoading(s) == [s EXCEPT !.loading = TRUE]
hideLoading(s) == [s EXCEPT !.loading = FALSE]

\* the first FEATURE_CONFIG.forEach of updateData from the i-th feature on;
\* acc carries the monitor, the three counters and whether a TypeError
\* has ended the loop
RECURSIVE RenderPass(_, _, _, _)
RenderPass(acc, features, bufferReady, i) ==
    IF i > Len(FEATURE_CONFIG) THEN acc
    ELSE LET feature == FEATURE_CONFIG[i]
             featureData == ElementAt(features, feature.id)
         IN  IF PropertyReadThrows(featureData) THEN [acc EXCEPT !.threw = TRUE]
             ELSE LET currentValue == featureData.current_value
                      currentSource == featureData.current_source
                      predictionValue == featureData.prediction_value
                      currentStatus == determineDataStatus(currentValue)
                      shown == updateFeatureDisplayWithoutSaving(acc.s, feature.id,
                                   currentValue, currentStatus, currentSource,
                                   predictionValue, bufferReady)
                  IN  RenderPass(
                          [s |-> shown,
                           validCount |-> acc.validCount
                               + IF currentStatus = "valid" THEN 1 ELSE 0,
                           predictedCount |-> acc.predictedCount
                               + IF currentStatus = "predicted" THEN 1 ELSE 0,
                           missingCount |-> acc.missingCount
                               + IF currentStatus = "missing" THEN 1 ELSE 0,
                           threw |-> FALSE],
                          features, bufferReady, i + 1)

\* the assignment without its guard: an absent value is saved as well
SavedLastValueUnguarded(previous, currentValue) == currentValue

\* what the second forEach assigns to this.lastValues[id]
SavedLastValue(previous, currentValue) ==
    IF ~IsNullish(currentValue) THEN currentValue ELSE previous

\* the second FEATURE_CONFIG.forEach of updateData
SavePass(lastValues, features) ==
    [id \in FeatureIds |->
        SavedLastValue(lastValues[id], ElementAt(features, id).current_value)]

\* updateData after its first forEach has left `rendered`: the second
\* forEach, updateStats, updateTBMStatusFromBackend, updateStepInfo and the
\* assignment of lastData, none of them reached if the first forEach threw
updateDataAfterRender(rendered, data) ==
    IF rendered.threw THEN [s |-> rendered.s, outcome |-> "threw"]
    ELSE [s |-> [updateStepInfo(
                     updateTBMStatusFromBackend(
                         updateStats(
                             [rendered.s EXCEPT
                                 !.lastValues = SavePass(@, data.features)],
                             rendered.validCount, rendered.missingCount,
                             rendered.predictedCount),
                         data.tbm_status),
                     JsOr(data.step_count, Num(0)),
                     JsOr(data.buffer_ready, Bool(FALSE)))
                 EXCEPT !.lastData = data.features],
          outcome |-> "completed"]

\* updateData with the readiness taken from the step count (five steps of
\* warm-up) and not from buffer_ready
updateDataGatedByStepCount(s, data) ==
    IF data.k = "null" \/ ~data.hasFeatures THEN [s |-> s, outcome |-> "dropped"]
    ELSE updateDataAfterRender(
             RenderPass([s |-> s, validCount |-> 0, predictedCount |-> 0,
                         missingCount |-> 0, threw |-> FALSE],
                        data.features,
                        Bool(data.step_count.t = "number" /\ data.step_count.n >= 5), 1),
             data)

\* the function forgetting the last batch before it tests the body
updateDataForgettingOnInvalid(s, data) ==
    IF data.k = "null" \/ ~data.hasFeatures
    THEN [s |-> [s EXCEPT !.lastData = << >>], outcome |-> "dropped"]
    ELSE updateDataAfterRender(
             RenderPass([s |-> s, validCount |-> 0, predictedCount |-> 0,
                         missingCount |-> 0, threw |-> FALSE],
                        data.features, JsOr(data.buffer_ready, Bool(FALSE)), 1),
             data)

\* updateData(data) on monitor s: the monitor afterwards and how the call
\* ended: "dropped" (early return), "completed", or "threw" (TypeError)
updateData(s, data) ==
    IF data.k = "null" \/ ~data.hasFeatures THEN [s |-> s, outcome |-> "dropped"]
    ELSE updateDataAfterRender(
             RenderPass([s |-> s, validCount |-> 0, predictedCount |-> 0,
                         missingCount |-> 0, threw |-> FALSE],
                        data.features, JsOr(data.buffer_ready, Bool(FALSE)), 1),
             data)

(***************************************************************************)
(* generateMockData: every result the random draws can produce, the        *)
(* generated numbers taken from MockSamples.                               *)
(***************************************************************************)
\* upper end of Math.random() * range for the unit
MockRange(unit) ==
    CASE unit = "MPa" -> 20
      [] unit = "mm/min" -> 100
      [] unit = "mm" -> 1000
      [] unit = "kN" -> 10000
      [] unit = "r/min" -> 5
      [] unit = "kN·m" -> 1000
      [] unit = "%" -> 100
      [] OTHER -> 100

MockSamples == {2 * One}

MockElements(feature) ==
    LET values == {v \in MockSamples : v < MockRange(feature.unit) * One}
    IN  {RawElement(Null)}
        \cup {RawElement(Num(v)) : v \in values}
        \cup {RawElement(Tagged(v, "true")) : v \in values}

generateMockData ==
    {[k |-> "object", hasFeatures |-> TRUE, features |-> features,
      step_count |-> Undefined, buffer_ready |-> Undefined, tbm_status |-> Undefined] :
        features \in {f \in [1..Len(FEATURE_CONFIG) -> UNION {MockElements(FEATURE_CONFIG[i]) :
                                                     i \in 1..Len(FEATURE_CONFIG)}] :
                         \A i \in 1..Len(FEATURE_CONFIG) : f[i] \in MockElements(FEATURE_CONFIG[i])}}

(***************************************************************************)
(* fetchData after its awaits.  A response is a rejected fetch ("network"),*)
(* a status outside 2xx ("http"), a body response.json() rejects           *)
(* ("syntax"), or a parsed body ("json").  Nothing of the monitor is read  *)
(* or written between the two awaits, so they are one suspension.          *)
(***************************************************************************)
Response(kind, data) == [k |-> kind, data |-> data]

Call(data, outcome) == [data |-> data, outcome |-> outcome]

\* the catch block; mock is what generateMockData returns
fetchDataCatch(s, mock, earlier) ==
    LET ended(fallback) ==
            [s |-> fallback.s,
             calls |-> earlier \o << Call(mock, fallback.outcome) >>,
             caught |-> TRUE,
             escaped |-> fallback.outcome = "threw"]
    IN  ended(updateData(hideLoading(updateStatus(s, "error")), mock))

\* the monitor after the continuation of fetchData, the updateData calls it
\* made, whether the catch block ran, and whether an exception left fetchData
fetchDataSettled(s, response, mock) ==
    LET ended(updated) ==
            IF updated.outcome = "threw"
            THEN fetchDataCatch(updated.s, mock, << Call(response.data, "threw") >>)
            ELSE [s |-> hideLoading(updateStatus(updated.s, "connected")),
                  calls |-> << Call(response.data, updated.outcome) >>,
                  caught |-> FALSE,
                  escaped |-> FALSE]
    IN  IF response.k # "json" THEN fetchDataCatch(s, mock, << >>)
        ELSE ended(updateData(s, response.data))

\* what generateMockData may return to fetchData on monitor s: every result
\* of it where the catch block runs, nothing drawn where it does not
MockDraws(s, response) ==
    IF response.k # "json" \/ updateData(s, response.data).outcome = "threw"
    THEN generateMockData
    ELSE {NullBody}

(***************************************************************************)
(* Inputs: what the endpoint may answer.                                   *)
(***************************************************************************)
CurrentValues == {Null, Num(1230000), Num(250000)}
BufferReadyFlags == {Bool(TRUE), Bool(FALSE)}

\* a feature that reports nothing, and one that reports cv together with a
\* forecast 0.8 above it
Silent == FeatureObject(Null, Null, Null)
Reporting(cv) == FeatureObject(cv, Str("api"), Num(cv.n + (8 * One) \div 10))

\* one object per catalogue entry: no feature reporting, one, or all
FullArrays ==
    {[i \in 1..Len(FEATURE_CONFIG) |-> IF i = j THEN Reporting(cv) ELSE Silent] :
        j \in 0..Len(FEATURE_CONFIG), cv \in CurrentValues \ {Null}}
    \cup {[i \in 1..Len(FEATURE_CONFIG) |-> Reporting(cv)] : cv \in CurrentValues \ {Null}}
\* every feature reporting cv
Uniform(cv) == [i \in 1..Len(FEATURE_CONFIG) |-> Reporting(cv)]
\* an array one element short, and one with an extra element
ShortArrays ==
    {SubSeq(Uniform(cv), 1, Len(FEATURE_CONFIG) - 1) : cv \in CurrentValues \ {Null}}
LongArrays == {Uniform(cv) \o << Silent >> : cv \in CurrentValues \ {Null}}

ResponseBodies ==
    {NullBody, NoFeaturesBody}
    \cup {Body(f, Num(1), br, Str("active")) :
            f \in FullArrays \cup ShortArrays \cup LongArrays, br \in BufferReadyFlags}

\* the responses that reach the catch block before any updateData
FailedResponses == {Response(k, NullBody) : k \in {"network", "http", "syntax"}}
ParsedResponses == {Response("json", b) : b \in ResponseBodies}

\* a few parsed responses: every feature reporting with the buffer ready, the
\* same with other values and the buffer not ready, an array one short, an
\* array one long, and the two bodies without features
FewBodies ==
    {NullBody, NoFeaturesBody,
     Body(Uniform(Num(1230000)), Num(5), Bool(TRUE), Str("active")),
     Body(Uniform(Num(250000)), Num(1), Bool(FALSE), Str("rest")),
     Body(SubSeq(Uniform(Num(250000)), 1, Len(FEATURE_CONFIG) - 1), Num(5), Bool(TRUE),
          Str("active")),
     Body(Uniform(Num(250000)) \o << Silent >>, Num(5), Bool(TRUE), Str("active"))}
FewParsedResponses == {Response("json", b) : b \in FewBodies}

(***************************************************************************)
(* State.                                                                  *)
(***************************************************************************)
VARIABLES
    isRunning,              \* this.isRunning
    updateInterval,         \* this.updateInterval is a live timer
    paused,                 \* this.paused
    lastValues,             \* this.lastValues, undefined where it has no key
    lastPredictionValues,   \* this.lastPredictionValues, likewise
    lastData,               \* this.lastData
    tPredictionCell,        \* #t-prediction-<id>
    valueCell,              \* #value-<id>
    changeCell,             \* #change-<id>
    predictionCell,         \* #prediction-<id>
    validCount,             \* #validCount
    missingCount,           \* #missingCount
    machineStatus,          \* #machineStatus
    statusDot,              \* #statusDot, the class after "status-dot"
    statusText,             \* #statusText
    loading,                \* #loadingOverlay has class show
    issued,                 \* number of fetch() calls made so far
    inflight,               \* the fetches not yet settled, by issue number
    stoppedAfter,           \* history: issued when stopMonitoring first ran, -1 before
    lastSeen,               \* history: per feature the current value of the latest
                            \* completed updateData call that had one (value), the
                            \* number of completed calls without one since
                            \* (missingSince), and the number of completed calls
                            \* without one between the value before and it (after)
    lastSettled,            \* history: the fetch settled last and what it did
    lastTimer,              \* history: what the latest run of the setInterval
                            \* callback did: "skipped" (paused), "fetched", or
                            \* "resumed" (fetched, the run before it skipped);
                            \* "none" before the first run
    classified,             \* a value handed to determineDataStatus and what it
                            \* returned, "pending" before the call
    origin                  \* history: for every fetch issued, in order, what
                            \* called fetchData ("start", "timer" or "refresh")
                            \* and this.paused at that moment

vars == << isRunning, updateInterval, paused, lastValues, lastPredictionValues, lastData,
           tPredictionCell, valueCell, changeCell, predictionCell, validCount,
           missingCount, machineStatus, statusDot, statusText, loading, issued, inflight,
           stoppedAfter, lastSeen, lastSettled, lastTimer, classified, origin >>

schedulerVars == << isRunning, updateInterval, paused >>
monitorVars == << lastValues, lastPredictionValues, lastData, tPredictionCell, valueCell,
                  changeCell, predictionCell, validCount, missingCount, machineStatus,
                  statusDot, statusText >>
historyVars == << lastSeen, lastSettled >>

\* the monitor and its page as one record
Monitor ==
    [lastValues |-> lastValues, lastPredictionValues |-> lastPredictionValues,
     lastData |-> lastData, tPredictionCell |-> tPredictionCell, valueCell |-> valueCell,
     changeCell |-> changeCell, predictionCell |-> predictionCell,
     validCount |-> validCount, missingCount |-> missingCount,
     machineStatus |-> machineStatus, statusDot |-> statusDot, statusText |-> statusText,
     loading |-> loading]

\* the next state holds monitor s
Becomes(s) ==
    /\ lastValues' = s.lastValues
    /\ lastPredictionValues' = s.lastPredictionValues
    /\ lastData' = s.lastData
    /\ tPredictionCell' = s.tPredictionCell
    /\ valueCell' = s.valueCell
    /\ changeCell' = s.changeCell
    /\ predictionCell' = s.predictionCell
    /\ validCount' = s.validCount
    /\ missingCount' = s.missingCount
    /\ machineStatus' = s.machineStatus
    /\ statusDot' = s.statusDot
    /\ statusText' = s.statusText
    /\ loading' = s.loading

NoSettled == [id |-> 0, response |-> "none", calls |-> << >>, caught |-> FALSE,
              escaped |-> FALSE]

\* the constructor has run: init() rendered the table, startMonitoring() set
\* the timer and issued the first fetch, updateStatus('connecting')
InitPage ==
    /\ isRunning = TRUE
    /\ updateInterval = TRUE
    /\ paused = FALSE
    /\ lastValues = [id \in FeatureIds |-> Undefined]
    /\ lastPredictionValues = [id \in FeatureIds |-> Undefined]
    /\ lastData = << >>
    /\ tPredictionCell = [id \in FeatureIds |-> Cell(Dash, "")]
    /\ valueCell = [id \in FeatureIds |-> Cell(Dash, "")]
    /\ changeCell = [id \in FeatureIds |->
                        ChangeCell("--", FALSE, Dash, NoPercent, "", Undefined)]
    /\ predictionCell = [id \in FeatureIds |-> Cell(Dash, "")]
    /\ validCount = Undefined
    /\ missingCount = Undefined
    /\ machineStatus = ""
    /\ statusDot = "connecting"
    /\ statusText = StatusText("connecting", Undefined)
    /\ loading = FALSE
    /\ issued = 1
    /\ inflight = {1}
    /\ stoppedAfter = -1
    /\ lastSeen = [id \in FeatureIds |->
                      [value |-> Undefined, missingSince |-> 0, after |-> 0]]
    /\ lastSettled = NoSettled
    /\ lastTimer = "none"
    /\ origin = << [by |-> "start", paused |-> FALSE] >>

\* no value is handed to determineDataStatus on its own
NotClassified == [value |-> Undefined, status |-> "pending"]

Init == InitPage /\ classified = NotClassified

(***************************************************************************)
(* Operations.                                                             *)
(***************************************************************************)
\* fetchData() up to its first await: the request leaves
IssueFetch(limit, by) ==
    /\ issued < limit
    /\ issued' = issued + 1
    /\ inflight' = inflight \cup {issued + 1}
    /\ origin' = Append(origin, [by |-> by, paused |-> paused])

\* the setInterval callback of startMonitoring
\* the callback without its test of this.paused
TimerFireUnconditional(limit) ==
    /\ updateInterval
    /\ IssueFetch(limit, "timer")
    /\ lastTimer' = IF lastTimer = "skipped" THEN "resumed" ELSE "fetched"
    /\ UNCHANGED << schedulerVars, monitorVars, loading, stoppedAfter, historyVars,
                    classified >>

TimerFire(limit) ==
    /\ updateInterval
    /\ IF ~paused
       THEN /\ IssueFetch(limit, "timer")
            /\ lastTimer' = IF lastTimer = "skipped" THEN "resumed" ELSE "fetched"
            /\ UNCHANGED << schedulerVars, monitorVars, loading, stoppedAfter, historyVars,
                            classified >>
       ELSE /\ lastTimer' = "skipped"
            /\ UNCHANGED << schedulerVars, monitorVars, loading, issued, inflight,
                            stoppedAfter, historyVars, classified, origin >>

\* the function without its clearInterval
stopMonitoringKeepingTimer ==
    /\ isRunning' = FALSE
    /\ stoppedAfter' = IF isRunning THEN issued ELSE stoppedAfter
    /\ UNCHANGED << updateInterval, paused, monitorVars, loading, issued, inflight,
                    historyVars, lastTimer, classified, origin >>

stopMonitoring ==
    /\ isRunning' = FALSE
    /\ updateInterval' = FALSE
    /\ stoppedAfter' = IF isRunning THEN issued ELSE stoppedAfter
    /\ UNCHANGED << paused, monitorVars, loading, issued, inflight, historyVars,
                    lastTimer, classified, origin >>

togglePause ==
    /\ paused' = ~paused
    /\ UNCHANGED << isRunning, updateInterval, monitorVars, loading, issued, inflight,
                    stoppedAfter, historyVars, lastTimer, classified, origin >>

\* the function honouring the pause as the timer callback does
refreshDataUnlessPaused(limit) ==
    /\ ~paused
    /\ loading' = TRUE
    /\ IssueFetch(limit, "refresh")
    /\ UNCHANGED << schedulerVars, monitorVars, stoppedAfter, historyVars, lastTimer,
                    classified >>

refreshData(limit) ==
    /\ loading' = TRUE
    /\ IssueFetch(limit, "refresh")
    /\ UNCHANGED << schedulerVars, monitorVars, stoppedAfter, historyVars, lastTimer,
                    classified >>

\* history: lastSeen after the updateData calls of one settled fetch
RECURSIVE Seen(_, _)
Seen(seen, calls) ==
    IF calls = << >> THEN seen
    ELSE LET call == Head(calls)
             after ==
                 IF call.outcome # "completed" THEN seen
                 ELSE [id \in FeatureIds |->
                          LET cv == ElementAt(call.data.features, id).current_value
                          IN  IF IsNullish(cv)
                              THEN [seen[id] EXCEPT !.missingSince = @ + 1]
                              ELSE [value |-> cv, missingSince |-> 0,
                                    after |-> IF IsNullish(seen[id].value) THEN 0
                                              ELSE seen[id].missingSince]]
         IN  Seen(after, Tail(calls))

\* the continuation with a catch block that gives up polling: it clears the
\* interval timer
SettledCancelsTimer(id, response, settled) ==
    /\ Becomes(settled.s)
    /\ inflight' = inflight \ {id}
    /\ lastSeen' = Seen(lastSeen, settled.calls)
    /\ lastSettled' = [id |-> id, response |-> response.k, calls |-> settled.calls, caught |-> settled.caught,
                       escaped |-> settled.escaped]
    /\ updateInterval' = (updateInterval /\ ~settled.caught)
    /\ UNCHANGED << isRunning, paused, issued, stoppedAfter, lastTimer, classified,
                    origin >>

\* the continuation of fetchData has run with result settled for fetch id
Settled(id, response, settled) ==
    /\ Becomes(settled.s)
    /\ inflight' = inflight \ {id}
    /\ lastSeen' = Seen(lastSeen, settled.calls)
    /\ lastSettled' = [id |-> id, response |-> response.k, calls |-> settled.calls, caught |-> settled.caught,
                       escaped |-> settled.escaped]
    /\ UNCHANGED << schedulerVars, issued, stoppedAfter, lastTimer, classified, origin >>

\* an outstanding fetch settles with a response the endpoint may give, one
\* of failed or, if its body parses, of parsed, and fetchData runs to its end
FetchSettle(failed, parsed) ==
    \E id \in inflight, response \in failed \cup parsed :
        \E mock \in MockDraws(Monitor, response) :
            Settled(id, response, fetchDataSettled(Monitor, response, mock))

\* the page under every order of timer fires, operator controls and
\* settling fetches, with the endpoint answering from FewParsedResponses
Next ==
    \/ TimerFire(MaxFetches)
    \/ stopMonitoring
    \/ togglePause
    \/ refreshData(MaxFetches)
    \/ FetchSettle(FailedResponses, FewParsedResponses)

Spec == Init /\ [][Next]_vars

\* the timer fires after the previous fetch has settled
TimerFireInTime == inflight = {} /\ TimerFire(MaxCycles)

\* the page left alone, every fetch settling within the timer period, with
\* the endpoint answering from ParsedResponses
NextReconcile ==
    \/ TimerFireInTime
    \/ FetchSettle({Response("network", NullBody)}, ParsedResponses)

SpecReconcile == Init /\ [][NextReconcile]_vars

\* the parsed responses with one object per catalogue entry
WellFormedResponses ==
    {Response("json", Body(f, Num(1), br, Str("active"))) :
        f \in FullArrays, br \in BufferReadyFlags}

\* the page left alone, every fetch settling within the timer period, with
\* the endpoint up and answering from WellFormedResponses
NextWellFormed ==
    \/ TimerFireInTime
    \/ FetchSettle({}, WellFormedResponses)

SpecWellFormed == Init /\ [][NextWellFormed]_vars

\* the endpoint up and answering with well-formed bodies: every feature
\* reporting, the buffer ready or still collecting
SteadyResponses ==
    {Response("json", Body(Uniform(Num(1230000)), Num(5), Bool(TRUE), Str("active"))),
     Response("json", Body(Uniform(Num(250000)), Num(1), Bool(FALSE), Str("rest")))}

\* the page under every order of timer fires, operator controls and
\* settling fetches, with the endpoint answering from SteadyResponses
NextScheduler ==
    \/ TimerFire(MaxFetches)
    \/ stopMonitoring
    \/ togglePause
    \/ refreshData(MaxFetches)
    \/ FetchSettle({}, SteadyResponses)

SpecScheduler == Init /\ [][NextScheduler]_vars

\* a body that parses and one whose array is one element short
RetryResponses ==
    {Response("json", Body(Uniform(Num(1230000)), Num(5), Bool(TRUE), Str("active"))),
     Response("json", Body(SubSeq(Uniform(Num(250000)), 1, Len(FEATURE_CONFIG) - 1),
                           Num(5), Bool(TRUE), Str("active")))}

\* the page left alone, every fetch settling within the timer period, with
\* the endpoint failing in every way or answering from RetryResponses
NextRetry ==
    \/ TimerFireInTime
    \/ FetchSettle(FailedResponses, RetryResponses)

SpecRetry == Init /\ [][NextRetry]_vars

\* current values around 2.5 that differ by less than 0.0001, by 0.0001 and
\* by more, and no value
ChangeSamples ==
    {Null, Num(249990), Num(249991), Num(250000), Num(250009), Num(250010), Num(1230000)}

\* feature 1 reporting a value of ChangeSamples, feature 2 nothing
ChangeResponses ==
    {Response("json",
              Body(<< FeatureObject(cv, Str("api"), Null) >>
                       \o [i \in 1..(Len(FEATURE_CONFIG) - 1) |-> Silent],
                   Num(5), Bool(TRUE), Str("active"))) : cv \in ChangeSamples}

\* the page left alone, every fetch settling within the timer period, with
\* the endpoint up and answering from ChangeResponses
NextChange ==
    \/ TimerFireInTime
    \/ FetchSettle({}, ChangeResponses)

SpecChange == Init /\ [][NextChange]_vars

\* feature 1 reporting nothing, 2.5 or 12.3, 2.5 as an object flagged
\* predicted, or a string,
\* with no current_source or with one of the sources the page knows; the
\* other features reporting 2.5 from the api
ProvenanceResponses ==
    {Response("json",
              Body(<< FeatureObject(cv, cs, Num(3 * One)) >>
                       \o [i \in 1..(Len(FEATURE_CONFIG) - 1) |-> Reporting(Num(250000))],
                   Num(5), Bool(TRUE), Str("active"))) :
        cv \in {Null, Num(250000), Num(1230000), Tagged(250000, "true"), Str("n/a")},
        cs \in {Undefined, Str("api"), Str("predicted"), Str("simulated"), Str("cached")}}

\* the page left alone, every fetch settling within the timer period, with
\* the endpoint up and answering from ProvenanceResponses
NextProvenance ==
    \/ TimerFireInTime
    \/ FetchSettle({}, ProvenanceResponses)

SpecProvenance == Init /\ [][NextProvenance]_vars

(***************************************************************************)
(* The earlier revision of the monitor (src/unnamed/part_000): the         *)
(* endpoint sends features as an array of bare values, and updateData      *)
(* computes the forecast of every feature itself.                          *)
(***************************************************************************)
\* what Date.now() and Math.random() contribute to a forecast, in percent:
\* sin(Date.now() / 10000) * 0.1 and 0.05 * (Math.random() - 0.5) * 2
TrendSamples == {-10, 10}
RandomSamples == {-5, 0}

\* value.value of an object, the value itself otherwise
ValueOrItself(value) ==
    IF value.t = "object" THEN (IF value.hasValue THEN Num(value.n) ELSE Undefined)
    ELSE value

getHistoricalValue(s, featureId) ==
    IF ElementAt(s.lastData, featureId).raw.t # "null" /\ s.lastData # << >>
    THEN ValueOrItself(ElementAt(s.lastData, featureId).raw)
    ELSE Null

getDefaultValue(featureId) ==
    LET unit == FEATURE_CONFIG[featureId].unit
    IN  CASE unit = "MPa" -> Num(10 * One)
          [] unit = "mm/min" -> Num(50 * One)
          [] unit = "mm" -> Num(500 * One)
          [] unit = "mm/rpm" -> Num(15 * One)
          [] unit = "kN" -> Num(5000 * One)
          [] unit = "r/min" -> Num(2 * One)
          [] unit = "kN·m" -> Num(500 * One)
          [] unit = "%" -> Num(50 * One)
          [] OTHER -> Num(50 * One)

\* in percent; trend is what the sine gives at the time of the call
calculateTrendFactor(s, featureId, trend) ==
    IF s.lastData = << >> THEN 0
    ELSE IF IsNullish(ElementAt(s.lastData, featureId).raw) THEN 0
    ELSE trend

Max(a, b) == IF a >= b THEN a ELSE b
Min(a, b) == IF a <= b THEN a ELSE b

\* the forecast from baseValue: baseValue * (1 + trendFactor + randomFactor)
\* kept between max(0, baseValue * 0.5) and baseValue * 1.5
PredictionFrom(baseValue, trendFactor, randomFactor) ==
    IF baseValue.t # "number" THEN NaN
    ELSE Num(Max(Max(0, baseValue.n \div 2),
                 Min((baseValue.n * 3) \div 2,
                     (baseValue.n * (100 + trendFactor + randomFactor)) \div 100)))

generateModelPrediction(s, featureId, currentValue, trend, random) ==
    PredictionFrom(IF ~IsNullish(currentValue) THEN ValueOrItself(currentValue)
                   ELSE JsOr(getHistoricalValue(s, featureId), getDefaultValue(featureId)),
                   calculateTrendFactor(s, featureId, trend), random)

updateFeatureDisplay(s, featureId, value, status, prediction) ==
    [s EXCEPT !.valueCell[featureId] =
                  IF ~IsNullish(value)
                  THEN Cell(formatValue(ValueOrItself(value)),
                            IF status = "valid" THEN "valid" ELSE "missing")
                  ELSE Cell(Dash, "missing"),
              !.predictionCell[featureId] =
                  Cell(formatValue(ValueOrItself(prediction)), "predicted")]

\* the FEATURE_CONFIG.forEach of the earlier updateData from the i-th feature on
RECURSIVE RenderPassEarlier(_, _, _, _, _)
RenderPassEarlier(acc, features, trend, random, i) ==
    IF i > Len(FEATURE_CONFIG) THEN acc
    ELSE LET feature == FEATURE_CONFIG[i]
             currentValue == ElementAt(features, feature.id).raw
             currentStatus == determineDataStatus(currentValue)
         IN  RenderPassEarlier(
                 [s |-> updateFeatureDisplay(acc.s, feature.id, currentValue, currentStatus,
                            generateModelPrediction(acc.s, feature.id, currentValue,
                                                    trend, random[feature.id])),
                  validCount |-> acc.validCount + IF currentStatus = "valid" THEN 1 ELSE 0,
                  predictedCount |-> acc.predictedCount
                      + IF currentStatus = "predicted" THEN 1 ELSE 0,
                  missingCount |-> acc.missingCount
                      + IF currentStatus = "missing" THEN 1 ELSE 0,
                  threw |-> FALSE],
                 features, trend, random, i + 1)

updateDataEarlierAfterRender(rendered, data) ==
    [s |-> [updateStats(rendered.s, rendered.validCount, rendered.missingCount,
                        rendered.predictedCount) EXCEPT !.lastData = data.features],
     outcome |-> "completed"]

\* updateData of the earlier revision
updateDataEarlier(s, data, trend, random) ==
    IF data.k = "null" \/ ~data.hasFeatures THEN [s |-> s, outcome |-> "dropped"]
    ELSE updateDataEarlierAfterRender(
             RenderPassEarlier([s |-> s, validCount |-> 0, predictedCount |-> 0,
                                missingCount |-> 0, threw |-> FALSE],
                               data.features, trend, random, 1),
             data)

\* fetchData of the earlier revision after its awaits
fetchDataEarlier(s, response, mock, trend, random) ==
    LET then(updated) ==
            [s |-> hideLoading(updateStatus(updated.s, "connected")),
             calls |-> << Call(response.data, updated.outcome) >>,
             caught |-> FALSE, escaped |-> FALSE]
        catch(fallback) ==
            [s |-> fallback.s, calls |-> << Call(mock, fallback.outcome) >>,
             caught |-> TRUE, escaped |-> FALSE]
    IN  IF response.k = "json" THEN then(updateDataEarlier(s, response.data, trend, random))
        ELSE catch(updateDataEarlier(hideLoading(updateStatus(s, "error")), mock, trend, random))

\* the endpoint of the earlier revision: both features reporting 2.5, the
\* first one 12.3 flagged as filled in and the second nothing, and a body
\* without features
EarlierResponses ==
    {Response("json", Body(<< RawElement(Num(250000)), RawElement(Num(250000)) >>,
                           Undefined, Undefined, Undefined)),
     Response("json", Body(<< RawElement(Tagged(1230000, "true")), RawElement(Null) >>,
                           Undefined, Undefined, Undefined)),
     Response("json", NoFeaturesBody)}

\* an outstanding fetch of the earlier revision settles
FetchSettleEarlier(failed, parsed) ==
    \E id \in inflight, response \in failed \cup parsed :
        \E mock \in IF response.k = "json" THEN {NullBody} ELSE generateMockData :
            \E trend \in TrendSamples, random \in [FeatureIds -> RandomSamples] :
                Settled(id, response, fetchDataEarlier(Monitor, response, mock, trend, random))

\* the page of the earlier revision left alone, every fetch settling within
\* the timer period, with the endpoint failing or answering from
\* EarlierResponses
NextEarlier ==
    \/ inflight = {} /\ TimerFire(MaxFetches)
    \/ FetchSettleEarlier({Response("network", NullBody)}, EarlierResponses)

SpecEarlier == Init /\ [][NextEarlier]_vars

\* the endpoint answering from WellFormedResponses, with the JSON value null
\* or with an object that has no features
DroppedResponses ==
    WellFormedResponses \cup {Response("json", NullBody), Response("json", NoFeaturesBody)}

\* the page left alone, every fetch settling within the timer period, with
\* the endpoint up and answering from DroppedResponses
NextDropped ==
    \/ TimerFireInTime
    \/ FetchSettle({}, DroppedResponses)

SpecDropped == Init /\ [][NextDropped]_vars

\* feature 1 reporting 0, 1, 2.5, -2.5, 5 or nothing, feature 2 nothing
ZeroResponses ==
    {Response("json",
              Body(<< FeatureObject(cv, Str("api"), Null) >>
                       \o [i \in 1..(Len(FEATURE_CONFIG) - 1) |-> Silent],
                   Num(5), Bool(TRUE), Str("active"))) :
        cv \in {Null, Num(0), Num(One), Num(250000), Num(-250000), Num(5 * One)}}

\* the page left alone, every fetch settling within the timer period, with
\* the endpoint up and answering from ZeroResponses
NextZero ==
    \/ TimerFireInTime
    \/ FetchSettle({}, ZeroResponses)

SpecZero == Init /\ [][NextZero]_vars

\* the monitor inside its constructor, the fields assigned (lines 110-117) and
\* init() not yet called: no timer, no fetch; the table body is still empty
\* and the status indicator is as the page's markup left it
InitConstructed ==
    /\ isRunning = FALSE
    /\ updateInterval = FALSE
    /\ paused = FALSE
    /\ lastValues = [id \in FeatureIds |-> Undefined]
    /\ lastPredictionValues = [id \in FeatureIds |-> Undefined]
    /\ lastData = << >>
    /\ tPredictionCell = [id \in FeatureIds |-> Cell(Dash, "")]
    /\ valueCell = [id \in FeatureIds |-> Cell(Dash, "")]
    /\ changeCell = [id \in FeatureIds |->
                        ChangeCell("--", FALSE, Dash, NoPercent, "", Undefined)]
    /\ predictionCell = [id \in FeatureIds |-> Cell(Dash, "")]
    /\ validCount = Undefined
    /\ missingCount = Undefined
    /\ machineStatus = ""
    /\ statusDot = ""
    /\ statusText = StatusText("", Undefined)
    /\ loading = FALSE
    /\ issued = 0
    /\ inflight = {}
    /\ stoppedAfter = -1
    /\ lastSeen = [id \in FeatureIds |->
                      [value |-> Undefined, missingSince |-> 0, after |-> 0]]
    /\ lastSettled = NoSettled
    /\ lastTimer = "none"
    /\ classified = NotClassified
    /\ origin = << >>

\* startMonitoring without its last statement, the immediate fetchData()
startMonitoringWithoutFetch(limit) ==
    /\ isRunning' = TRUE
    /\ updateInterval' = TRUE
    /\ UNCHANGED << issued, inflight, origin >>

\* startMonitoring(): the flag, the interval timer, and the immediate fetch
startMonitoring(limit) ==
    /\ isRunning' = TRUE
    /\ updateInterval' = TRUE
    /\ IssueFetch(limit, "start")

\* startMonitoring has run
Started == isRunning \/ stoppedAfter >= 0

\* init(), called once by the constructor: renderDataTable leaves every cell
\* showing "--", startMonitoring, updateStatus('connecting')
init ==
    /\ ~Started
    /\ startMonitoring(MaxFetches)
    /\ statusDot' = "connecting"
    /\ statusText' = StatusText("connecting", Undefined)
    /\ UNCHANGED << paused, lastValues, lastPredictionValues, lastData, tPredictionCell,
                    valueCell, changeCell, predictionCell, validCount, missingCount,
                    machineStatus, loading, stoppedAfter, historyVars, lastTimer,
                    classified >>

\* the page from inside its constructor on: init() first, then every order of
\* timer fires, operator controls and settling fetches, with the endpoint
\* answering from SteadyResponses
NextStart ==
    \/ init
    \/ Started /\ TimerFire(MaxFetches)
    \/ Started /\ stopMonitoring
    \/ Started /\ togglePause
    \/ Started /\ refreshData(MaxFetches)
    \/ Started /\ FetchSettle({}, SteadyResponses)

SpecStart == InitConstructed /\ [][NextStart]_vars

\* current values of a shape the endpoint's JSON can carry and the catalogue
\* does not expect: a string that is no number, an object without value, and
\* an object { value, predicted: true }
ShapedValues == {Str("n/a"), Malformed("absent"), Tagged((25 * One) \div 10, "true")}

\* one feature with a value of ShapedValues, sent with or without the api
\* source, the others reporting 2.5; and every feature reporting 2.5 or 12.3
ShapedArrays ==
    {[i \in 1..Len(FEATURE_CONFIG) |->
         IF i = j THEN FeatureObject(v, cs, Num(3 * One)) ELSE Reporting(Num(250000))] :
        j \in 1..Len(FEATURE_CONFIG), v \in ShapedValues, cs \in {Null, Str("api")}}
    \cup {Uniform(Num(250000)), Uniform(Num(1230000))}

ShapedResponses ==
    {Response("json", Body(f, Num(5), Bool(TRUE), Str("active"))) : f \in ShapedArrays}

\* the page left alone, every fetch settling within the timer period, with
\* the endpoint up and answering from ShapedResponses
NextShapes ==
    \/ TimerFireInTime
    \/ FetchSettle({}, ShapedResponses)

SpecShapes == Init /\ [][NextShapes]_vars

\* the values determineDataStatus is handed on its own: absent values,
\* numbers (NaN and the infinities included), strings, booleans, objects
\* { value, predicted } under every predicted flag, and objects without value
NumberSamples ==
    {-(123 * One) \div 10, -One, -1, 0, 1, 9, 10, One, (25 * One) \div 10, 1000 * One}
PredictedFlags == {"true", "false", "truthy", "absent"}
ClassifyInputs ==
    {Null, Undefined, NaN, Infinity(1), Infinity(-1), Str(""), Str("12.3"),
     Bool(TRUE), Bool(FALSE)}
    \cup {Num(n) : n \in NumberSamples}
    \cup {Tagged(n, p) : n \in NumberSamples, p \in PredictedFlags}
    \cup {Malformed(p) : p \in PredictedFlags}

InitClassify ==
    /\ InitPage
    /\ \E value \in ClassifyInputs : classified = [value |-> value, status |-> "pending"]

\* this.determineDataStatus(value)
Classify ==
    /\ classified.status = "pending"
    /\ classified' = [classified EXCEPT !.status = determineDataStatus(classified.value)]
    /\ UNCHANGED << schedulerVars, monitorVars, loading, issued, inflight, stoppedAfter,
                    historyVars, lastTimer, origin >>

NextClassify == Classify

\* determineDataStatus applied once to a value of ClassifyInputs
SpecClassify == InitClassify /\ [][NextClassify]_vars

(***************************************************************************)
(* Vocabulary of the properties.  A tick is one updateData call on a body  *)
(* that has features; lastSettled.calls lists the ticks of the fetch       *)
(* settled last, in order.                                                 *)
(***************************************************************************)
\* this step settles a fetch
FetchSettles == inflight' # inflight /\ inflight' \subseteq inflight

FailureKinds == {"network", "http", "syntax"}

LastCall(settled) == settled.calls[Len(settled.calls)]

\* the last updateData call of the settled fetch ran to its end
CycleCompleted(settled) ==
    Len(settled.calls) > 0 /\ LastCall(settled).outcome = "completed"

\* position of the first element of the array whose property read throws,
\* one past the catalogue if there is none
RECURSIVE ThrowsAt(_, _)
ThrowsAt(features, i) ==
    IF i > Len(FEATURE_CONFIG) THEN i
    ELSE IF PropertyReadThrows(ElementAt(features, FEATURE_CONFIG[i].id)) THEN i
    ELSE ThrowsAt(features, i + 1)

\* the call reached feature id in its render pass
Rendered(call, id) ==
    /\ call.outcome # "dropped"
    /\ \E i \in 1..Len(FEATURE_CONFIG) :
          FEATURE_CONFIG[i].id = id /\ i < ThrowsAt(call.data.features, 1)

CurrentOf(call, id) == ElementAt(call.data.features, id).current_value
PredictionOf(call, id) == ElementAt(call.data.features, id).prediction_value
ReadyIn(call) == Truthy(call.data.buffer_ready)

\* the next-step prediction the call recorded for feature id, undefined if none
RecordedBy(call, id) ==
    IF Rendered(call, id) /\ ReadyIn(call) /\ ~IsNullish(PredictionOf(call, id))
    THEN PredictionOf(call, id)
    ELSE Undefined

\* the prediction recorded by the tick before the last tick of this step's
\* fetch, undefined if there was no such tick or it recorded none
RecordedByTickBefore(id) ==
    IF Len(lastSettled'.calls) > 1
    THEN RecordedBy(lastSettled'.calls[Len(lastSettled'.calls) - 1], id)
    ELSE IF Len(lastSettled.calls) > 0 THEN RecordedBy(LastCall(lastSettled), id)
    ELSE Undefined

(***************************************************************************)
(* Properties.                                                             *)
(***************************************************************************)
\* C1: after any sequence of completed updateData calls, the stored
\* lastValue of every feature is the current value of the latest call in
\* which the feature had one, and is absent if it never had one; a call in
\* which the value is absent leaves lastValue as it was.
C1_LastValueIsLatestPresent ==
    \A id \in FeatureIds : lastValues[id] = lastSeen[id].value

\* a feature kept its value over a completed call without one while another
\* feature has never had a value
C1_Witness ==
    /\ \E id \in FeatureIds :
          /\ lastSeen[id].value.t = "number"
          /\ lastSeen[id].missingSince >= 1
          /\ lastValues[id] = lastSeen[id].value
    /\ \E id \in FeatureIds :
          /\ lastSeen[id].value = Undefined
          /\ lastSeen[id].missingSince >= 1
          /\ lastValues[id] = Undefined

\* C2: when a feature has the number v1 in one completed call, no value in
\* the next n completed calls (any n >= 0) and the number v2 in the call
\* after those, the change computed in that last call is v2 - v1.
C2_ChangeAcrossMissingTicks ==
    [][\A id \in FeatureIds :
          (/\ FetchSettles
           /\ CycleCompleted(lastSettled')
           /\ lastSeen[id].value.t = "number"
           /\ CurrentOf(LastCall(lastSettled'), id).t = "number")
          => changeCell'[id].change =
                 Num(CurrentOf(LastCall(lastSettled'), id).n - lastSeen[id].value.n)]_vars

\* a change other than zero was computed across at least one completed call
\* in which the feature had no value
C2_Witness ==
    \E id \in FeatureIds :
        /\ CycleCompleted(lastSettled)
        /\ CurrentOf(LastCall(lastSettled), id).t = "number"
        /\ lastSeen[id].after >= 1
        /\ lastSeen[id].missingSince = 0
        /\ changeCell[id].change.t = "number"
        /\ changeCell[id].change.n # 0
        /\ changeCell[id].k = "change"

\* C3: the t-time predicted cell a tick shows for a feature is the
\* next-step prediction recorded by the tick before it, or the unavailable
\* marker if the tick before recorded none.
C3_TTimeCellIsPreviousTickPrediction ==
    [][\A id \in FeatureIds :
          (/\ FetchSettles
           /\ Len(lastSettled'.calls) > 0
           /\ Rendered(LastCall(lastSettled'), id))
          => tPredictionCell'[id].text =
                 IF RecordedByTickBefore(id) = Undefined THEN Dash
                 ELSE formatValue(RecordedByTickBefore(id))]_vars

\* C4: at most one fetch is outstanding at any time.
C4_AtMostOneFetchInFlight == Cardinality(inflight) <= 1

\* C5: when a fetch issued before stopMonitoring settles after it, nothing
\* of the monitor or of the page changes.
C5_StoppedSessionNotUpdated ==
    [][(/\ FetchSettles
        /\ ~isRunning
        /\ \E id \in inflight \ inflight' : id <= stoppedAfter)
       => UNCHANGED << monitorVars, loading >>]_vars

\* C6: a fetch whose ticks all carry a false buffer_ready updates no stored
\* prediction and leaves the next-step cell of every feature showing the
\* collecting marker.
C6_NotReadyShowsCollecting ==
    [][(/\ FetchSettles
        /\ Len(lastSettled'.calls) > 0
        /\ \A i \in 1..Len(lastSettled'.calls) :
              /\ lastSettled'.calls[i].outcome # "dropped"
              /\ ~ReadyIn(lastSettled'.calls[i]))
       => /\ lastPredictionValues' = lastPredictionValues
          /\ \A id \in FeatureIds : predictionCell'[id].text = CollectingText]_vars

\* C7: when a completed tick delivers buffer_ready true and a prediction p
\* for a feature, its next-step cell shows p in that tick, and its t-time
\* cell shows p in the next completed tick.
C7_DeliveredPredictionShownNextTick ==
    [][\A id \in FeatureIds :
          /\ (/\ FetchSettles
              /\ CycleCompleted(lastSettled')
              /\ ReadyIn(LastCall(lastSettled'))
              /\ ~IsNullish(PredictionOf(LastCall(lastSettled'), id)))
             => predictionCell'[id].text =
                    formatValue(PredictionOf(LastCall(lastSettled'), id))
          /\ (/\ FetchSettles
              /\ CycleCompleted(lastSettled)
              /\ ReadyIn(LastCall(lastSettled))
              /\ ~IsNullish(PredictionOf(LastCall(lastSettled), id))
              /\ CycleCompleted(lastSettled'))
             => tPredictionCell'[id].text =
                    formatValue(PredictionOf(LastCall(lastSettled), id))]_vars

\* C8: a body whose features array has not the length of the catalogue is
\* discarded: lastValues and lastPredictionValues stay as they were and no
\* cell is rendered.
C8_WrongLengthDiscarded ==
    [][(/\ FetchSettles
        /\ lastSettled'.response = "json"
        /\ Len(lastSettled'.calls) > 0
        /\ lastSettled'.calls[1].data.hasFeatures
        /\ Len(lastSettled'.calls[1].data.features) # Len(FEATURE_CONFIG))
       => UNCHANGED << lastValues, lastPredictionValues, tPredictionCell, valueCell,
                       changeCell, predictionCell >>]_vars

\* C9: after a failed fetch the reconciliation of the substitute batch
\* completes and no exception leaves fetchData.
C9_FallbackCycleCompletes ==
    lastSettled.response \in FailureKinds
        => ~lastSettled.escaped /\ CycleCompleted(lastSettled)

\* C10: when the cycle of a failed fetch ends, the connection-status
\* indicator shows error.
C10_FailedFetchShowsError ==
    lastSettled.response \in FailureKinds => statusDot = "error"

\* the body of the response settled last has no features array, or one whose
\* length is not that of the catalogue
WrongShape(settled) ==
    /\ settled.response = "json"
    /\ Len(settled.calls) > 0
    /\ \/ settled.calls[1].data.k = "null"
       \/ ~settled.calls[1].data.hasFeatures
       \/ Len(settled.calls[1].data.features) # Len(FEATURE_CONFIG)

\* C11: when a fetch that succeeded with a body of the wrong shape (no
\* features array, or one of the wrong length) has settled, the
\* connection-status indicator shows error, never connected.
C11_WrongShapeShowsError ==
    WrongShape(lastSettled) => statusDot = "error"

DataStatuses == {"valid", "predicted", "missing", "error"}

\* C12: determineDataStatus is total: on an absent value, a number (NaN
\* included), an object with value and predicted, an object without value
\* and any other value it returns one of valid, predicted, missing and
\* error, and it never throws.
C12_ClassifyIsTotal ==
    classified.status # "pending" => classified.status \in DataStatuses

\* an object without a value property has been classified, as error
C12_Witness ==
    /\ classified.value = Malformed("absent")
    /\ classified.status = "error"

\* the status the classification rules give a value: missing for an absent
\* value, predicted for an object whose predicted is true, valid for a finite
\* number and for an object with a value and no truthy predicted flag, error
\* for anything else
StatusByRule(value) ==
    IF IsNullish(value) THEN "missing"
    ELSE IF value.t = "object" /\ value.predicted = "true" THEN "predicted"
    ELSE IF IsFiniteNumber(value) THEN "valid"
    ELSE IF value.t = "object" /\ value.hasValue /\ value.predicted \in {"false", "absent"}
    THEN "valid"
    ELSE "error"

\* C13: determineDataStatus returns missing exactly for an absent value,
\* predicted exactly for an object whose predicted is true, valid exactly for
\* a finite number or an object with a value and no truthy predicted flag,
\* and error for every other shape, the infinities and the objects whose
\* predicted flag is truthy but not true included.
C13_ClassifyFollowsRules ==
    classified.status # "pending" => classified.status = StatusByRule(classified.value)

\* the monitor inside updateData(data) when the first forEach has rendered
\* the first feature of the catalogue and has not yet reached the second
AfterFirstFeature(s, data) ==
    LET featureData == ElementAt(data.features, FEATURE_CONFIG[1].id)
    IN  updateFeatureDisplayWithoutSaving(s, FEATURE_CONFIG[1].id,
            featureData.current_value, determineDataStatus(featureData.current_value),
            featureData.current_source, featureData.prediction_value,
            JsOr(data.buffer_ready, Bool(FALSE)))

\* C14: within one updateData call no feature's lastValue or stored
\* prediction is advanced before every feature has been rendered: when the
\* first feature has been rendered and the others not yet, lastValues and
\* lastPredictionValues are still those of the cycle before.
C14_RenderPrecedesStateUpdate ==
    [][(/\ FetchSettles
        /\ Len(lastSettled'.calls) > 0
        /\ lastSettled'.calls[1].outcome # "dropped"
        /\ ~PropertyReadThrows(ElementAt(lastSettled'.calls[1].data.features,
                                         FEATURE_CONFIG[1].id)))
       => /\ AfterFirstFeature(Monitor, lastSettled'.calls[1].data).lastValues
                = lastValues
          /\ AfterFirstFeature(Monitor, lastSettled'.calls[1].data).lastPredictionValues
                = lastPredictionValues]_vars

\* C15: every stored lastValue is absent or a number: a current value that
\* is not a number is never stored as lastValue.
C15_LastValueIsNumeric ==
    \A id \in FeatureIds : lastValues[id].t \in {"undefined", "number"}

\* the body with the element of feature id replaced by a well-formed one
WellFormedAt(data, id) ==
    [data EXCEPT !.features[id] = Reporting(Num(1230000))]

\* C16: a feature whose current value has an unrecognized shape is rendered
\* with the status error in its own cell and does not abort the updateData
\* call: the call completes, and the cells, the lastValue and the stored
\* prediction of every other feature are what they would be had that
\* feature's value been well formed.
C16_ErrorShapeIsIsolated ==
    [][\A id \in FeatureIds :
          (/\ FetchSettles
           /\ Len(lastSettled'.calls) > 0
           /\ lastSettled'.calls[1].outcome # "dropped"
           /\ id \in 1..Len(lastSettled'.calls[1].data.features)
           /\ ~PropertyReadThrows(ElementAt(lastSettled'.calls[1].data.features, id))
           /\ determineDataStatus(CurrentOf(lastSettled'.calls[1], id)) = "error")
          => /\ lastSettled'.calls[1].outcome = "completed"
             /\ valueCell'[id].className = "error"
             /\ \A other \in FeatureIds \ {id} :
                   LET expected ==
                           updateData(Monitor,
                                      WellFormedAt(lastSettled'.calls[1].data, id)).s
                   IN  /\ tPredictionCell'[other] = expected.tPredictionCell[other]
                       /\ valueCell'[other] = expected.valueCell[other]
                       /\ changeCell'[other] = expected.changeCell[other]
                       /\ predictionCell'[other] = expected.predictionCell[other]
                       /\ lastValues'[other] = expected.lastValues[other]
                       /\ lastPredictionValues'[other] =
                              expected.lastPredictionValues[other]]_vars

\* the entry generateMockData pushed carries a mark of being synthesized: a
\* predicted flag or a source
CarriesTag(element) ==
    \/ element.raw.t = "object" /\ element.raw.predicted # "absent"
    \/ ~IsNullish(element.current_source)

\* C17: every present value of a batch generateMockData synthesized carries
\* a source or predicted tag, and none is classified valid (the entry itself
\* is what the earlier revision of updateData classifies) or rendered with
\* the api-data or valid class.
C17_FallbackValuesAreTagged ==
    lastSettled.caught =>
        \A i \in 1..Len(LastCall(lastSettled).data.features) :
            LET element == LastCall(lastSettled).data.features[i]
            IN  ~IsNullish(element.raw) =>
                    /\ CarriesTag(element)
                    /\ determineDataStatus(element.raw) # "valid"
                    /\ (CycleCompleted(lastSettled) /\ i \in FeatureIds)
                           => valueCell[i].className \notin {"api-data", "valid"}

\* C18: once stopMonitoring has run no fetch is issued: refreshData after
\* the stop starts neither a fetch nor a reconciliation.
C18_NoFetchIssuedAfterStop ==
    [][~isRunning => issued' = issued /\ inflight' \subseteq inflight]_vars

\* C19: a run of the timer callback while paused is a no-op: it issues no
\* fetch and reconciles nothing; pausing and resuming leave the timer set;
\* and a run of the callback while not paused issues a fetch, so the first
\* run after a resume does.
C19_PausedTimerFireIsNoOp ==
    [][/\ (TimerFire(MaxFetches) /\ paused)
           => /\ issued' = issued
              /\ inflight' = inflight
              /\ UNCHANGED << schedulerVars, monitorVars, loading >>
       /\ (paused' # paused) => updateInterval' = updateInterval
       /\ (TimerFire(MaxFetches) /\ ~paused)
           => /\ issued' = issued + 1
              /\ inflight' = inflight \cup {issued + 1}]_vars

\* the timer callback skipped a run while paused and, the page resumed, its
\* next run issued the second fetch
C19_Witness ==
    /\ lastTimer = "resumed"
    /\ ~paused
    /\ updateInterval
    /\ issued = 2

\* C20: a use of the pause control while the page is paused leaves it
\* paused, so using the control repeatedly gives the state using it once
\* gives.
C20_PauseControlIsIdempotent ==
    [][(paused /\ togglePause) => paused']_vars

\* C21: the step in which startMonitoring runs makes the monitor running,
\* sets the interval timer and issues exactly one fetch, and the timer
\* callback has not run by then: its first run finds that fetch issued.
C21_StartIssuesOneImmediateFetch ==
    [][/\ (~Started /\ Started')
           => /\ isRunning'
              /\ updateInterval'
              /\ issued' = issued + 1
              /\ inflight' = inflight \cup {issued + 1}
              /\ lastTimer' = "none"
       /\ (lastTimer = "none" /\ lastTimer' # "none") => issued >= 1]_vars

\* startMonitoring has run and nothing else: the monitor is running, the
\* timer is set and has not fired, and the one fetch issued is outstanding
C21_Witness ==
    /\ isRunning
    /\ updateInterval
    /\ issued = 1
    /\ inflight = {1}
    /\ lastTimer = "none"
    /\ statusDot = "connecting"

\* C22: no settling fetch, failed or thrown out of included, cancels the
\* timer or changes the running and paused flags, and every run of the timer
\* callback on a running, not paused monitor issues a new fetch.
C22_TimerSurvivesFailures ==
    [][/\ FetchSettles => UNCHANGED schedulerVars
       /\ (TimerFire(MaxCycles) /\ isRunning /\ ~paused)
           => /\ issued' = issued + 1
              /\ inflight' = inflight \cup {issued + 1}]_vars

\* the first fetch failed and an exception left fetchData, and the timer
\* callback has issued the second fetch since
C22_Witness ==
    /\ lastSettled.id = 1
    /\ lastSettled.response \in FailureKinds
    /\ lastSettled.escaped
    /\ lastTimer = "fetched"
    /\ inflight = {2}
    /\ updateInterval

\* step counts below, at and above the warm-up length of five
StepCounts == {Num(0), Num(1), Num(4), Num(5), Num(6)}

\* C23: the readiness gate reads buffer_ready alone: a body and the same body
\* with any other step_count leave the same lastValues and stored
\* predictions and the same next-step and t-time cells.
C23_StepCountDoesNotGate ==
    [][(/\ FetchSettles
        /\ Len(lastSettled'.calls) = 1
        /\ CycleCompleted(lastSettled'))
       => \A stepCount \in StepCounts :
              LET other == updateData(Monitor,
                               [lastSettled'.calls[1].data EXCEPT
                                   !.step_count = stepCount]).s
              IN  /\ lastValues' = other.lastValues
                  /\ lastPredictionValues' = other.lastPredictionValues
                  /\ predictionCell' = other.predictionCell
                  /\ tPredictionCell' = other.tPredictionCell]_vars

\* a cycle with step_count 1 and buffer_ready true has shown a prediction
C23_Witness ==
    /\ CycleCompleted(lastSettled)
    /\ LastCall(lastSettled).data.step_count = Num(1)
    /\ ReadyIn(LastCall(lastSettled))
    /\ \E id \in FeatureIds :
          /\ predictionCell[id].className = "predicted"
          /\ lastPredictionValues[id] = PredictionOf(LastCall(lastSettled), id)
          /\ lastPredictionValues[id].t = "number"

\* the class of a change current - lastValue: no-change below 0.0001 in
\* magnitude, increase above it, decrease below minus it
ChangeClassByRule(current, lastValue) ==
    IF Abs(current.n - lastValue.n) < One \div 10000 THEN "no-change"
    ELSE IF current.n - lastValue.n > 0 THEN "increase"
    ELSE "decrease"

SourceOf(call, id) == ElementAt(call.data.features, id).current_source

\* the source derived from a status when the batch supplies none
DerivedSource(status) ==
    IF status = "predicted" THEN "predicted"
    ELSE IF status = "valid" THEN "api"
    ELSE "missing"

\* the class the value cell shows for a source
ClassOfSource(source) ==
    IF source = "api" THEN "api-data"
    ELSE IF source \in {"predicted", "simulated"} THEN "filled-data"
    ELSE IF source = "cached" THEN "cached-data"
    ELSE "missing"

\* C25: the provenance tag shown for a present current value is that of the
\* batch's explicit source when one is supplied, whatever the value is
\* classified as, and otherwise that of the source derived from the status
\* (predicted -> predicted, valid -> api), so that an untagged valid value is
\* shown as a value tagged api is.
C25_TagIsSourceOrDerived ==
    [][\A id \in FeatureIds :
          (/\ FetchSettles
           /\ Len(lastSettled'.calls) = 1
           /\ CycleCompleted(lastSettled')
           /\ ~IsNullish(CurrentOf(LastCall(lastSettled'), id)))
          => IF ~IsNullish(SourceOf(LastCall(lastSettled'), id))
             THEN valueCell'[id].className =
                      ClassOfSource(SourceOf(LastCall(lastSettled'), id).s)
             ELSE determineDataStatus(CurrentOf(LastCall(lastSettled'), id))
                      \in {"predicted", "valid"}
                  => valueCell'[id].className =
                         ClassOfSource(DerivedSource(
                             determineDataStatus(CurrentOf(LastCall(lastSettled'), id))))]_vars

\* C25 for the values sent with a source: the value cell shows the class of
\* that source whatever determineDataStatus returned.
C25_ExplicitSourceIsShown ==
    [][\A id \in FeatureIds :
          (/\ FetchSettles
           /\ Len(lastSettled'.calls) = 1
           /\ CycleCompleted(lastSettled')
           /\ ~IsNullish(CurrentOf(LastCall(lastSettled'), id))
           /\ ~IsNullish(SourceOf(LastCall(lastSettled'), id)))
          => valueCell'[id].className =
                 ClassOfSource(SourceOf(LastCall(lastSettled'), id).s)]_vars

\* the features of the catalogue whose current value the call classified as status
ClassifiedAs(call, status) ==
    {id \in FeatureIds : determineDataStatus(CurrentOf(call, id)) = status}

\* C26: after every completed cycle the displayed valid count is the number
\* of features classified valid, the displayed missing count the number
\* classified missing, and the numbers classified valid, predicted, missing
\* and error add up to the size of the catalogue.
C26_CountsMatchClassification ==
    CycleCompleted(lastSettled)
    => /\ validCount = Num(Cardinality(ClassifiedAs(LastCall(lastSettled), "valid")))
       /\ missingCount = Num(Cardinality(ClassifiedAs(LastCall(lastSettled), "missing")))
       /\ Cardinality(ClassifiedAs(LastCall(lastSettled), "valid"))
              + Cardinality(ClassifiedAs(LastCall(lastSettled), "predicted"))
              + Cardinality(ClassifiedAs(LastCall(lastSettled), "missing"))
              + Cardinality(ClassifiedAs(LastCall(lastSettled), "error"))
          = Len(FEATURE_CONFIG)

\* a cycle in which one feature was classified predicted and one valid has
\* left a valid count of 1 and a missing count of 0
C26_Witness ==
    /\ CycleCompleted(lastSettled)
    /\ Cardinality(ClassifiedAs(LastCall(lastSettled), "predicted")) = 1
    /\ validCount = Num(1)
    /\ missingCount = Num(0)

\* what the response supplied for feature id as its current value and as its
\* forecast: the fields of a feature object, the entry itself in the earlier
\* revision, which is sent no forecast
SuppliedCurrent(data, id) ==
    IF ElementAt(data.features, id).k = "object"
    THEN ElementAt(data.features, id).current_value
    ELSE ElementAt(data.features, id).raw

SuppliedPrediction(data, id) ==
    IF ElementAt(data.features, id).k = "object"
    THEN ElementAt(data.features, id).prediction_value
    ELSE Undefined

\* the cell shows no value
ShowsNoValue(cell) == cell.text \in {Dash, CollectingText}

\* C27: the page only displays what the endpoint sent and computes or fills
\* in nothing: after every cycle, the value in the current-value cell and the
\* value in the prediction cell of every feature are values the response of
\* the endpoint supplied for that feature.
C27_CellsShowWhatTheEndpointSent ==
    [][(FetchSettles /\ CycleCompleted(lastSettled'))
       => \A id \in FeatureIds :
             /\ \/ ShowsNoValue(valueCell'[id])
                \/ /\ ~lastSettled'.caught
                   /\ valueCell'[id].text =
                          formatValue(ValueOrItself(
                              SuppliedCurrent(LastCall(lastSettled').data, id)))
             /\ \/ ShowsNoValue(predictionCell'[id])
                \/ /\ ~lastSettled'.caught
                   /\ predictionCell'[id].text =
                          formatValue(SuppliedPrediction(LastCall(lastSettled').data, id))]_vars

\* this step issues a fetch from refreshData() while the monitor is paused
RefreshesWhilePaused ==
    /\ Len(origin') = Len(origin) + 1
    /\ origin'[Len(origin')] = [by |-> "refresh", paused |-> TRUE]

\* the fetch settling in this step was issued by refreshData() while paused
SettlesPausedRefresh ==
    /\ FetchSettles
    /\ origin[lastSettled'.id] = [by |-> "refresh", paused |-> TRUE]

\* C28: a manual refresh while the monitor is paused issues one fetch at once,
\* whatever the timer did last, and leaves the paused flag and the timer as
\* they are; the response of that fetch is reconciled by updateData as that of
\* a timer tick is: the cells show its values, and lastValues and lastData
\* hold them.
C28_RefreshBypassesPause ==
    /\ [](paused /\ issued < MaxFetches => ENABLED refreshData(MaxFetches))
    /\ [][/\ RefreshesWhilePaused
             => /\ issued' = issued + 1
                /\ inflight' = inflight \cup {issued'}
                /\ UNCHANGED << paused, updateInterval, isRunning, lastTimer >>
          /\ SettlesPausedRefresh
             => /\ CycleCompleted(lastSettled')
                /\ paused' = paused
                /\ lastData' = LastCall(lastSettled').data.features
                /\ \A id \in FeatureIds :
                      /\ valueCell'[id].text =
                             formatValue(CurrentOf(LastCall(lastSettled'), id))
                      /\ lastValues'[id] = CurrentOf(LastCall(lastSettled'), id)]_vars

\* the response of a refresh made while paused has been reconciled, with
\* the monitor still paused and the timer's last run a skipped one
C28_Witness ==
    /\ paused
    /\ lastTimer = "skipped"
    /\ lastSettled.id > 0
    /\ origin[lastSettled.id] = [by |-> "refresh", paused |-> TRUE]
    /\ CycleCompleted(lastSettled)
    /\ \A id \in FeatureIds : lastValues[id] = CurrentOf(LastCall(lastSettled), id)

\* this step issues a fetch from the setInterval callback
TimerFetches ==
    /\ Len(origin') = Len(origin) + 1
    /\ origin'[Len(origin')].by = "timer"

\* C29: stopMonitoring() cancels the interval timer, whether the monitor was
\* running or paused when it was called: the timer never fires again, so no
\* timer-triggered fetch is issued in any later state; and calling it again
\* changes nothing.
C29_StopCancelsTimer ==
    /\ [][/\ (isRunning /\ ~isRunning') => ~updateInterval'
          /\ ~updateInterval
             => /\ ~updateInterval'
                /\ ~TimerFetches
                /\ lastTimer' = lastTimer]_vars
    /\ [](~isRunning /\ ~updateInterval => ~ENABLED <<stopMonitoring>>_vars)

\* the monitor is stopped and paused, the last run of the timer was a
\* skipped one, and every fetch issued since stopMonitoring() is a refresh
C29_Witness ==
    /\ ~isRunning
    /\ ~updateInterval
    /\ paused
    /\ lastTimer = "skipped"
    /\ stoppedAfter >= 0
    /\ issued > stoppedAfter
    /\ \A k \in (stoppedAfter + 1)..issued : origin[k].by = "refresh"

\* C30: a body that is null or has no features field is dropped by
\* updateData before anything is touched: lastValues, lastPredictionValues,
\* lastData, every cell of every feature and the two running totals are what
\* they were before the response.
C30_InvalidBodyTouchesNothing ==
    [][(/\ FetchSettles
        /\ lastSettled'.response = "json"
        /\ \/ lastSettled'.calls[1].data.k = "null"
           \/ ~lastSettled'.calls[1].data.hasFeatures)
       => /\ Len(lastSettled'.calls) = 1
          /\ UNCHANGED << lastValues, lastPredictionValues, lastData, tPredictionCell,
                          valueCell, changeCell, predictionCell, validCount,
                          missingCount >>]_vars

\* a body without features has been dropped after a cycle that showed and
\* stored values, which are still there
C30_Witness ==
    /\ lastSettled.id > 1
    /\ lastSettled.response = "json"
    /\ LastCall(lastSettled).outcome = "dropped"
    /\ LastCall(lastSettled).data = NoFeaturesBody
    /\ lastData # << >>
    /\ validCount = Num(Len(FEATURE_CONFIG))
    /\ \A id \in FeatureIds :
          lastValues[id].t = "number" /\ valueCell[id].className = "api-data"

\* C31: while the monitor is paused its per-feature state (lastValues,
\* lastPredictionValues) and the cells of the page change only by the
\* response of a manual refresh issued during the pause; with no such
\* refresh they stay as they were at the moment of pausing.
C31_PausedStateChangesOnlyByRefresh ==
    [][(paused /\ paused')
       => \/ UNCHANGED << lastValues, lastPredictionValues, tPredictionCell, valueCell,
                          changeCell, predictionCell >>
          \/ SettlesPausedRefresh]_vars

\* C32: responses are applied in the order their fetches were issued: the
\* per-feature state is never updated from the response of a fetch issued
\* earlier than the fetch whose response updated it last.
C32_ResponsesAppliedInIssueOrder ==
    [][(/\ FetchSettles
        /\ CycleCompleted(lastSettled')
        /\ CycleCompleted(lastSettled)
        /\ << lastValues', lastPredictionValues' >> # << lastValues, lastPredictionValues >>)
       => lastSettled'.id > lastSettled.id]_vars

C34_PercentDivisorIsNonZero ==
    [][\A id \in FeatureIds :
          (/\ FetchSettles
           /\ Len(lastSettled'.calls) = 1
           /\ CycleCompleted(lastSettled')
           /\ changeCell'[id].className \in {"increase", "decrease"})
          => /\ lastValues[id].t = "number"
             /\ lastValues[id].n # 0
             /\ changeCell'[id].pct.k = "fixed"]_vars

====
